---- MODULE Spec2Model ----
(***************************************************************************)
(* A model of fast_lts_array(X, y, alpha), the FAST-LTS search of          *)
(* lts_array/fast_lts_array.py, as a state machine over exact rationals.   *)
(*                                                                         *)
(* Numbers.  A real is a pair <<num, den>> with den > 0 in lowest terms;   *)
(* <<1, 0>> is +inf, <<-1, 0>> is -inf and <<0, 0>> is NaN, with numpy's   *)
(* rules (x/0 = inf, 0/0 = NaN, every comparison with NaN is false).       *)
(* Floating-point rounding is not modelled: the arithmetic is exact.       *)
(*                                                                         *)
(* Units.  Standardization divides column i of X by datamad[i] and y by    *)
(* datamad[p].  The working copy is held in scaled units in which it is    *)
(* integral: Xvar holds (X / datamad[i]) * U, with U the least common      *)
(* multiple of the column scales of X, and yvar holds (y / datamad[p]) *   *)
(* datamad[p].  A coefficient vector of the search (z, bcoeff, coeffs      *)
(* before post-processing) is a triple <<N1, N2, D>>: the standardized     *)
(* coefficients times datamad[p] / U are N1/D and N2/D; <<0, 0, 0>> is     *)
(* NaN.  residu holds the standardized residuals times datamad[p] * D for  *)
(* the D of the current z, and obj, prevobj, bobj, bestobj hold the        *)
(* standardized objective times datamad[p]^2.  Least squares, the order of *)
(* the absolute residuals and every comparison of two objectives are       *)
(* unchanged by these positive common factors; post-processing undoes      *)
(* them exactly.                                                           *)
(***************************************************************************)
EXTENDS Integers, Sequences, FiniteSets, TLC

----------------------------------------------------------------------------
(* Exact arithmetic on extended rationals.                                 *)

Abs(a) == IF a < 0 THEN -a ELSE a

RECURSIVE Gcd(_, _)
Gcd(a, b) == IF b = 0 THEN a ELSE Gcd(b, a % b)

Sign(a) == IF a > 0 THEN 1 ELSE IF a < 0 THEN -1 ELSE 0

\* The pair num/den in lowest terms; den = 0 gives inf, -inf or NaN.
Q(num, den) ==
    IF den = 0 THEN <<Sign(num), 0>>
    ELSE LET g == Gcd(Abs(num), Abs(den))
             s == IF den < 0 THEN -1 ELSE 1
         IN  <<s * (num \div g), s * (den \div g)>>

Rat(k) == <<k, 1>>
Zero == <<0, 1>>
One == <<1, 1>>
Inf == <<1, 0>>
NaN == <<0, 0>>

IsNaN(a) == a[2] = 0 /\ a[1] = 0
IsInf(a) == a[2] = 0 /\ a[1] # 0
IsFinite(a) == a[2] # 0

RAdd(a, b) ==
    IF IsNaN(a) \/ IsNaN(b) THEN NaN
    ELSE IF IsInf(a) THEN (IF IsInf(b) /\ b[1] # a[1] THEN NaN ELSE a)
    ELSE IF IsInf(b) THEN b
    ELSE LET g == Gcd(a[2], b[2])
         IN  Q(a[1] * (b[2] \div g) + b[1] * (a[2] \div g), (a[2] \div g) * b[2])

RNeg(a) == <<-a[1], a[2]>>
RSub(a, b) == RAdd(a, RNeg(b))

RMul(a, b) ==
    IF IsNaN(a) \/ IsNaN(b) THEN NaN
    ELSE IF a[2] = 0 \/ b[2] = 0 THEN <<Sign(a[1]) * Sign(b[1]), 0>>
    ELSE LET g1 == Gcd(Abs(a[1]), b[2])
             g2 == Gcd(Abs(b[1]), a[2])
             d1 == IF g1 = 0 THEN 1 ELSE g1
             d2 == IF g2 = 0 THEN 1 ELSE g2
         IN  Q((a[1] \div d1) * (b[1] \div d2), (a[2] \div d2) * (b[2] \div d1))

\* numpy's true division: finite/0 is +-inf, 0/0 is NaN.
RDiv(a, b) ==
    IF IsNaN(a) \/ IsNaN(b) THEN NaN
    ELSE IF b[2] = 0 THEN (IF a[2] = 0 THEN NaN ELSE Zero)
    ELSE IF b[1] = 0 THEN <<Sign(a[1]), 0>>
    ELSE RMul(a, Q(b[2] * Sign(b[1]), Abs(b[1])))

RAbs(a) == <<Abs(a[1]), a[2]>>
RSq(a) == RMul(a, a)

\* a < b, false when either side is NaN.
RLess(a, b) ==
    IF IsNaN(a) \/ IsNaN(b) THEN FALSE
    ELSE IF a[2] = 0 /\ b[2] = 0 THEN a[1] < b[1]
    ELSE IF a[2] = 0 THEN a[1] < 0
    ELSE IF b[2] = 0 THEN b[1] > 0
    ELSE a[1] * b[2] < b[1] * a[2]

REq(a, b) == ~IsNaN(a) /\ ~IsNaN(b) /\ a = b
RLeq(a, b) == RLess(a, b) \/ REq(a, b)

RECURSIVE SumSeq(_)
SumSeq(s) == IF s = <<>> THEN Zero ELSE RAdd(Head(s), SumSeq(Tail(s)))

\* The elements of s at the positions of idx, in idx's order.
Pick(s, idx) == [k \in 1..Len(idx) |-> s[idx[k]]]

RECURSIVE SetToSeq(_)
SetToSeq(S) ==
    IF S = {} THEN <<>>
    ELSE LET m == CHOOSE x \in S : \A w \in S : x <= w
         IN  <<m>> \o SetToSeq(S \ {m})

----------------------------------------------------------------------------
(* Helpers of lts_array.flts_helper_array (hcalc, uniran, randomset,       *)
(* insertion), after Rousseeuw and Van Driessen's FAST-LTS.                *)

\* The subset size h = f(alpha, n, p), a function of its arguments alone:
\* floor(2*n2 - n + 2*(n - n2)*alpha), n2 = floor((n+p+1)/2).
hcalc(alpha, n, p) ==
    LET n2 == (n + p + 1) \div 2
    IN  2 * n2 - n + ((2 * (n - n2) * alpha[1]) \div alpha[2])

SeedMul == 5761
SeedAdd == 999
SeedMod == 65536

\* One step of the linear congruential generator: the new seed.
uniran(seed) == (seed * SeedMul + SeedAdd) % SeedMod

\* The index in 1..tot that a seed stands for: floor(seed/65536 * tot) + 1.
SeedIndex(seed, tot) == ((seed * tot) \div SeedMod) + 1

\* Advance the seed until its index is not in taken.
RECURSIVE DrawFresh(_, _, _)
DrawFresh(seed, tot, taken) ==
    LET s == uniran(seed)
    IN  IF SeedIndex(s, tot) \in taken THEN DrawFresh(s, tot, taken) ELSE s

\* npar distinct indices of 1..tot and the advanced seed.
RECURSIVE randomsetFrom(_, _, _, _)
randomsetFrom(tot, npar, seed, randlist) ==
    IF Len(randlist) = npar THEN [index |-> randlist, seed |-> seed]
    ELSE LET s == DrawFresh(seed, tot, {randlist[k] : k \in 1..Len(randlist)})
         IN  randomsetFrom(tot, npar, s, Append(randlist, SeedIndex(s, tot)))

randomset(tot, npar, seed) == randomsetFrom(tot, npar, seed, <<>>)

PoolSize == 10

\* The first slot whose objective obj is strictly below.
InsertSlot(bobj, obj) ==
    CHOOSE x \in 1..Len(bobj) :
        /\ RLess(obj, bobj[x])
        /\ \A w \in 1..(x - 1) : ~RLess(obj, bobj[w])

\* Whether obj duplicates an objective already stored.
InPool(bobj, obj) == \E x \in 1..Len(bobj) : REq(bobj[x], obj)

\* The pool with (z, obj) put at its slot, the later entries shifted down
\* and the last one dropped; unchanged when the objective is a duplicate.
insertion(bcoeff, bobj, z, obj) ==
    IF InPool(bobj, obj) THEN [bcoeff |-> bcoeff, bobj |-> bobj]
    ELSE LET ins == InsertSlot(bobj, obj)
             Put(s, v) == [x \in 1..Len(s) |->
                              IF x < ins THEN s[x]
                              ELSE IF x = ins THEN v ELSE s[x - 1]]
         IN  [bcoeff |-> Put(bcoeff, z), bobj |-> Put(bobj, obj)]

----------------------------------------------------------------------------
(* Sorting and the numerical kernels of fast_lts_array.                    *)

\* The position (from 0) of v[j] in a stable ascending sort of v.
StableRank(v, j) ==
    Cardinality({k \in 1..Len(v) : RLess(v[k], v[j]) \/ (k < j /\ v[k] = v[j])})

\* np.argsort(v, kind='mergesort').
argsort(v) == [r \in 1..Len(v) |-> CHOOSE j \in 1..Len(v) : StableRank(v, j) = r - 1]

\* np.sort(v, kind='mergesort').
sort(v) == Pick(v, argsort(v))

\* np.median of a nonempty sequence.
median(v) ==
    LET s == sort(v)
        m == Len(v)
    IN  IF m % 2 = 1 THEN s[(m + 1) \div 2]
        ELSE RDiv(RAdd(s[m \div 2], s[m \div 2 + 1]), Rat(2))

\* 1.4826 and 1.2533 as exact fractions.
MadConst == Q(7413, 5000)
MeanConst == Q(12533, 10000)

\* x <= 1/root^2 for a rational x >= 0.
LeqInvSquare(x, root) ==
    IsFinite(x) /\ x[1] <= ((x[2] \div root) \div root)

\* x < 1/root^2 for a rational x >= 0.
LessInvSquare(x, root) ==
    IsFinite(x) /\ x[1] <= (((x[2] - 1) \div root) \div root)

\* eps is 1e-12, 1e-14 or 1e-16 by p: the root of its reciprocal.
EpsRoot(p) == IF p < 5 THEN 1000000 ELSE IF p <= 18 THEN 10000000 ELSE 100000000

\* abs(d) <= eps.
BelowEps(d, p) == LeqInvSquare(RAbs(d), EpsRoot(p))

\* The robust scale of one column: 1.4826 * median|col|, or the mean
\* absolute value times 1.2533 when that is at most eps.
ColumnScale(col, p) ==
    LET a == [k \in 1..Len(col) |-> RAbs(col[k])]
        mad == RMul(MadConst, median(a))
    IN  IF BelowEps(mad, p)
        THEN RMul(MeanConst, RDiv(SumSeq(a), Rat(Len(col))))
        ELSE mad

Column(M, i) == [j \in 1..Len(M) |-> Rat(M[j][i])]

\* np.linalg.matrix_rank of an integer matrix with at most two columns.
matrix_rank(M) ==
    LET rows == 1..Len(M)
        cols == 1..Len(M[1])
    IN  IF \A j \in rows : \A i \in cols : M[j][i] = 0 THEN 0
        ELSE IF Len(M[1]) >= 2 /\
                \E j \in rows : \E k \in rows :
                    M[j][1] * M[k][2] - M[j][2] * M[k][1] # 0
        THEN 2 ELSE 1

\* Whether every entry of the rows A and of b is finite.
AllFinite(A, b) ==
    /\ \A k \in 1..Len(A) : \A i \in 1..Len(A[k]) : IsFinite(A[k][i])
    /\ \A k \in 1..Len(b) : IsFinite(b[k])

RECURSIVE SumUpTo(_, _)
SumUpTo(f, k) == IF k = 0 THEN 0 ELSE f[k] + SumUpTo(f, k - 1)

Gcd3(a, b, c) == Gcd(Gcd(Abs(a), Abs(b)), Abs(c))

\* The coefficient triple n1/d, n2/d in lowest terms, d > 0.
Coef(n1, n2, d) ==
    LET g == Gcd3(n1, n2, d)
        s == IF d < 0 THEN -g ELSE g
    IN  <<n1 \div s, n2 \div s, d \div s>>

NaNCoef == <<0, 0, 0>>
CoefFinite(c) == c[3] # 0
CoefIsInf(c) == c[3] = 0 /\ c[1] > 0
CoefRat(c) == <<Q(c[1], c[3]), Q(c[2], c[3])>>

\* q, r = qr(A); z = lstsq(r, q'b)[0]: the least-squares solution of
\* A z = b of minimum norm, for integral A and b with two columns.  With
\* a singular normal matrix M the solution is M (A'b) / trace(M)^2 (the
\* pseudo-inverse of a matrix of rank one), and 0 for M = 0.
lstsq(A, b) ==
    LET m == Len(A)
        s11 == SumUpTo([k \in 1..m |-> A[k][1] * A[k][1]], m)
        s12 == SumUpTo([k \in 1..m |-> A[k][1] * A[k][2]], m)
        s22 == SumUpTo([k \in 1..m |-> A[k][2] * A[k][2]], m)
        t1 == SumUpTo([k \in 1..m |-> A[k][1] * b[k]], m)
        t2 == SumUpTo([k \in 1..m |-> A[k][2] * b[k]], m)
        det == s11 * s22 - s12 * s12
        tr == s11 + s22
    IN  IF det # 0
        THEN Coef(s22 * t1 - s12 * t2, s11 * t2 - s12 * t1, det)
        ELSE IF tr = 0 THEN <<0, 0, 1>>
        ELSE Coef(s11 * t1 + s12 * t2, s12 * t1 + s22 * t2, tr * tr)

\* (b - A z) * D for the coefficient triple z with denominator D.
Residuals(A, b, z) ==
    [j \in 1..Len(A) |-> b[j] * z[3] - A[j][1] * z[1] - A[j][2] * z[2]]

\* The position (from 0) of |v[j]| in a stable ascending sort of |v|.
AbsRank(v, j) ==
    Cardinality({k \in 1..Len(v) :
        Abs(v[k]) < Abs(v[j]) \/ (k < j /\ Abs(v[k]) = Abs(v[j]))})

\* A selection of the h observations of largest absolute residual.
obs_largest(residu, h) ==
    SelectSeq([j \in 1..Len(residu) |-> j],
              LAMBDA j : AbsRank(residu, j) >= Len(residu) - h)

\* np.sort(sortind[0:h]): the h observations of smallest absolute
\* residual (ties by position), in ascending order of index.
obs_in_set(residu, h) ==
    SelectSeq([j \in 1..Len(residu) |-> j], LAMBDA j : AbsRank(residu, j) < h)

\* np.sum(sor[0:h]**2) for sor = np.sort(np.abs(residu)) and residu over
\* the denominator d: the sum of the h smallest squared residuals.
TrimmedObjective(residu, d, h) ==
    LET obs == obs_in_set(residu, h)
    IN  Q(SumUpTo([k \in 1..h |-> residu[obs[k]] * residu[obs[k]]], h), d * d)

\* One C-step from the residuals residu: refit on the h observations of
\* smallest absolute residual, new residuals and new trimmed objective.
cstep(A, b, residu, h) ==
    LET obs == obs_in_set(residu, h)
        z == lstsq(Pick(A, obs), Pick(b, obs))
        r == Residuals(A, b, z)
    IN  [z |-> z, residu |-> r, obj |-> TrimmedObjective(r, z[3], h)]

\* The rational matrix or vector as integers (its entries are integral).
Ints(M) == [j \in 1..Len(M) |-> [i \in 1..Len(M[j]) |-> M[j][i][1]]]
IntsOf(v) == [j \in 1..Len(v) |-> v[j][1]]

\* b - A c in rationals, for integral A, b and rational coefficients c.
RResiduals(A, b, c) ==
    [j \in 1..Len(A) |->
        RSub(Rat(b[j]), RAdd(RMul(Rat(A[j][1]), c[1]), RMul(Rat(A[j][2]), c[2])))]

SqSeq(v) == [j \in 1..Len(v) |-> RSq(v[j])]

\* np.sum(sor[0:h]) for sor = np.sort(v): the sum of the h smallest of v.
SumSmallest(v, h) ==
    SumSeq(Pick(v, SelectSeq([j \in 1..Len(v) |-> j],
                             LAMBDA j : StableRank(v, j) < h)))

\* np.max(bobj).
MaxObj(bobj) ==
    CHOOSE m \in {bobj[x] : x \in 1..Len(bobj)} :
        \A x \in 1..Len(bobj) : RLeq(bobj[x], m)

----------------------------------------------------------------------------
(* Program constants of fast_lts_array.                                    *)

csteps1 == 4
csteps2 == 100
intercept == 0
ntrial == 500

\* A seed carried over from the previous call.
CarriedSeed(prev) == prev

\* The seed every call starts from; prev is the seed the previous call
\* ended with (a local of that call's frame, which the new call never sees).
InitialSeed(prev) == 0

\* tolerance 1e-7 of the exact-fit test, as the reciprocal 10^7.
TolRoot == 10000000

\* qnorm(0.9875)^2 = 2.2414^2 and 2.5^2, the squared cut-offs of the two
\* weightings.
QuantileSq == Q(5024, 1000)
FinalCutSq == Q(25, 4)

\* A C-step limit: its value, and whether it is a Python int or a numpy
\* float64 (np.ceil at line 142 returns a float64, which range() at line
\* 169 refuses with a TypeError).
IntLimit(k) == [count |-> k, float |-> FALSE]
FloatLimit(k) == [count |-> k, float |-> TRUE]

\* No C-step limit assigned yet.
NoLimit == IntLimit(0)

\* C-steps of the final phase, by problem size.
FinalCsteps(n, p) ==
    IF n * p <= 100000 THEN IntLimit(csteps2)
    ELSE IF n * p <= 1000000
         THEN FloatLimit(10 - (((n * p + 99999) \div 100000) - 2))
    ELSE IntLimit(1)

\* Trials of the final phase.
FinalNsamp(n) == IF n > 5000 THEN 1 ELSE PoolSize

\* A pool whose objectives start at zero.
PoolInitZero == Zero

\* The initial pool: objectives inf, coefficients NaN.
PoolInitObj == Inf
EmptyObj == [x \in 1..PoolSize |-> PoolInitObj]
EmptyCoeff == [x \in 1..PoolSize |-> NaNCoef]

----------------------------------------------------------------------------
(* The state of one call.                                                  *)

VARIABLES
    X, y, alpha,            \* the arguments: n x p, dimy1 x dimy2, a fraction
    pc, err,                \* where the call stands; the exception raised
    h, singular,            \* subset size; 'X is singular!!' was printed
    datamad, madzero,       \* column scales; 'MAD ... is zero' was printed
    Xvar, yvar,             \* the standardized working copy
    seed, tottimes, final, nsamp, csteps, adjh, ii, jj,
    z, residu, obj, prevobj,
    bobj, bcoeff,           \* the candidate pool
    bestobj, coeffs,        \* the accepted candidate
    rawfac, rewfac,         \* the correction factors the helpers returned
    residuals, s0sq, weights, nflag,
    Res,                    \* the dictionary returned
    calls, seen             \* calls made so far; the calls that returned

args == <<X, y, alpha>>
prep == <<h, singular, datamad, madzero, Xvar, yvar>>
loop == <<seed, tottimes, final, nsamp, csteps, adjh, ii, jj>>
iter == <<z, residu, obj, prevobj>>
pool == <<bobj, bcoeff>>
best == <<bestobj, coeffs>>
outs == <<rawfac, rewfac, residuals, s0sq, weights, nflag, Res>>
hist == <<calls, seen>>
vars == <<args, pc, err, prep, loop, iter, pool, best, outs, hist>>

n == Len(X)
p == Len(X[1])
dimy1 == Len(y)
dimy2 == Len(y[1])

\* The columns of the arguments as rationals.
xorig == [j \in 1..n |-> [i \in 1..p |-> Rat(X[j][i])]]
yorig == [j \in 1..dimy1 |-> Rat(y[j][1])]

NoRes == [coefficients |-> <<>>, scaleSq |-> NaN, flagged |-> <<>>,
          rsquared |-> NaN, residuals |-> <<>>, fitted |-> <<>>]
\* What a caller sees of a finished call: the arguments, the values the
\* correction-factor helpers returned, and the outcome.
Outcome == [X |-> X, y |-> y, alpha |-> alpha, rawfac |-> rawfac,
            rewfac |-> rewfac, pc |-> pc, err |-> err, Res |-> Res,
            seed |-> seed]

----------------------------------------------------------------------------
(* Validation and standardization (lines 70-112).                          *)

\* The exception of the shape checks, or "none".
ShapeError(rows, cols, yrows, ycols) ==
    IF rows # yrows THEN "IndexError"
    ELSE IF ycols # 1 THEN "IndexError"
    ELSE IF rows <= 2 * cols THEN "ValueError"
    ELSE "none"

Raise(e) == pc' = "raised" /\ err' = e

Validate ==
    /\ pc = "validate"
    /\ LET e == ShapeError(n, p, dimy1, dimy2)
       IN  IF e # "none"
           THEN /\ Raise(e)
                /\ UNCHANGED <<h, singular, bestobj>>
           ELSE /\ bestobj' = Inf
                /\ singular' = (matrix_rank(X) < p)
                /\ h' = hcalc(alpha, n, p)
                /\ pc' = "standardize"
                /\ UNCHANGED err
    /\ UNCHANGED <<args, datamad, madzero, Xvar, yvar, loop, iter, pool,
                   coeffs, outs, hist>>

\* Column i of data = (X | y).
DataColumn(i) == IF i <= p THEN [j \in 1..n |-> xorig[j][i]] ELSE yorig

\* The least common multiple of two positive rationals.
RLcm(a, b) ==
    Q((a[1] * b[1]) \div Gcd(a[1], b[1]), Gcd(a[2], b[2]))

RECURSIVE LcmSeq(_)
LcmSeq(s) == IF Len(s) = 1 THEN s[1] ELSE RLcm(s[1], LcmSeq(Tail(s)))

\* U: the least common multiple of the positive column scales of X.
Unit(d) ==
    LET pos == SelectSeq(SubSeq(d, 1, Len(d) - 1),
                         LAMBDA v : IsFinite(v) /\ v[1] > 0)
    IN  IF pos = <<>> THEN One ELSE LcmSeq(pos)

\* Xvar[:, i] / datamad[i], in units of 1/U.
ScaledX(d) == [j \in 1..n |-> [i \in 1..p |->
                  RDiv(RMul(xorig[j][i], Unit(d)), d[i])]]

\* yvar[:, 0] / datamad[p], in units of 1/datamad[p].
ScaledY(d) == [j \in 1..n |-> RMul(RDiv(yorig[j], d[p + 1]), d[p + 1])]

Standardize ==
    /\ pc = "standardize"
    /\ LET d == [i \in 1..(p + 1) |-> ColumnScale(DataColumn(i), p)]
       IN  /\ datamad' = d
           /\ madzero' = (\E i \in 1..(p + 1) : BelowEps(d[i], p))
           /\ Xvar' = ScaledX(d)
           /\ yvar' = ScaledY(d)
    /\ pc' = "init"
    /\ UNCHANGED <<args, err, h, singular, loop, iter, pool, best, outs, hist>>

----------------------------------------------------------------------------
(* Decoding shared by both exits.                                          *)

\* coeffs[ii] * datamad[p] / datamad[ii], then the last one multiplied and
\* divided by datamad[p-1] (lines 202-207).
PostCoeffs(c) ==
    LET t == [i \in 1..p |-> RDiv(RMul(Q(c[i], c[3]), Unit(datamad)), datamad[i])]
    IN  IF p <= 1 THEN t
        ELSE [i \in 1..p |->
                 IF i = p THEN RDiv(RMul(t[i], datamad[p]), datamad[p])
                 ELSE t[i]]

\* np.sum of the first k entries.
SumFirst(v, k) == SumSeq(SubSeq(v, 1, k))

\* rsquared of lines 265-273: 1 - s1/sh clamped by the two comparisons;
\* np.sort(yvar**2) sorts each row of the n x 1 array, so sh sums the first
\* k squared responses as they stand.
RSquared(res, k) ==
    LET s1 == SumSmallest(SqSeq(res), k)
        sh == SumFirst(SqSeq(yorig), k)
        r == RSub(One, RDiv(s1, sh))
    IN  IF RLess(One, r) THEN One ELSE IF RLess(r, Zero) THEN Zero ELSE r

Fitted(c) == [j \in 1..n |-> RAdd(RMul(xorig[j][1], c[1]), RMul(xorig[j][2], c[2]))]

\* The original data as integers.
xint == [j \in 1..n |-> [i \in 1..p |-> X[j][i]]]
yint == [j \in 1..n |-> y[j][1]]

\* least_squares_fit(Xvar, yvar, datamad, xorig, yorig): one least-squares
\* fit over all rows, every weight true, scale from its residuals.
least_squares_fit ==
    LET c == PostCoeffs(lstsq(Ints(Xvar), IntsOf(yvar)))
        r == RResiduals(xint, yint, c)
    IN  [coefficients |-> c,
         scaleSq |-> RDiv(SumSeq(SqSeq(r)), Rat(n - p)),
         flagged |-> [j \in 1..n |-> 1],
         rsquared |-> RSquared(r, n),
         residuals |-> r,
         fitted |-> Fitted(c)]

\* A candidate test in which no alpha takes the shortcut.
NeverOls(a) == FALSE

\* alpha == 1.00 (line 129).
IsOls(a) == a = One

InitSearch ==
    /\ pc = "init"
    /\ adjh' = h /\ nsamp' = ntrial /\ csteps' = IntLimit(csteps1)
    /\ tottimes' = 0 /\ final' = 0
    /\ z' = <<0, 0, 1>>
    /\ bobj' = EmptyObj
    /\ bcoeff' = EmptyCoeff
    /\ coeffs' = NaNCoef
    /\ IF IsOls(alpha)
       THEN IF AllFinite(Xvar, yvar)
            THEN Res' = least_squares_fit /\ pc' = "done" /\ UNCHANGED <<err, ii>>
            ELSE Raise("ValueError") /\ UNCHANGED <<Res, ii>>
       ELSE pc' = "trial" /\ ii' = 1 /\ UNCHANGED <<err, Res>>
    /\ UNCHANGED <<args, prep, seed, jj, residu, obj, prevobj, bestobj,
                   rawfac, rewfac, residuals, s0sq, weights, nflag, hist>>

----------------------------------------------------------------------------
(* The search (lines 135-199).                                             *)

\* obj < np.max(bobj): the trial's result is worth keeping.
Improves(o, objs) == RLess(o, MaxObj(objs))

\* A coarse trial: one pass of the redraw loop (lines 147-149, 158-167).
\* lstsq refuses non-finite input with a ValueError; its minimum-norm
\* solution of finite input is finite, so the loop does not repeat.
Draw ==
    /\ pc \in {"trial", "draw"}
    /\ final = 0
    /\ ii <= nsamp
    /\ IF pc = "trial"
       THEN tottimes' = tottimes + 1 /\ prevobj' = Zero
       ELSE UNCHANGED <<tottimes, prevobj>>
    /\ LET rs == randomset(n, p, seed)
           A == Pick(Xvar, rs.index)
           b == Pick(yvar, rs.index)
           zn == lstsq(Ints(A), IntsOf(b))
       IN  /\ seed' = rs.seed
           /\ IF ~AllFinite(A, b)
              THEN Raise("ValueError") /\ UNCHANGED <<z, residu, jj, ii>>
              ELSE /\ z' = zn
                   /\ UNCHANGED err
                   /\ IF CoefIsInf(zn)
                      THEN pc' = "draw" /\ UNCHANGED <<residu, jj, ii>>
                      ELSE IF CoefFinite(zn)
                      THEN /\ residu' = Residuals(Ints(Xvar), IntsOf(yvar), zn)
                           /\ jj' = 0
                           /\ pc' = "cstep"
                           /\ UNCHANGED ii
                      ELSE pc' = "trial" /\ ii' = ii + 1
                              /\ UNCHANGED <<residu, jj>>
    /\ UNCHANGED <<args, prep, final, nsamp, csteps, adjh, obj, pool,
                   best, outs, hist>>

\* A final trial: restart from pool entry ii (lines 147-153, 166-167).
Reseed ==
    /\ pc = "trial"
    /\ final = 1
    /\ ii <= nsamp
    /\ IsFinite(bobj[ii])
    /\ tottimes' = tottimes + 1
    /\ prevobj' = Zero
    /\ z' = bcoeff[ii]
    /\ IF CoefFinite(bcoeff[ii])
       THEN /\ residu' = Residuals(Ints(Xvar), IntsOf(yvar), bcoeff[ii])
            /\ jj' = 0
            /\ IF csteps.float
               THEN Raise("TypeError")
               ELSE pc' = "cstep" /\ UNCHANGED err
            /\ UNCHANGED ii
       ELSE /\ pc' = "trial" /\ ii' = ii + 1
            /\ UNCHANGED <<err, residu, jj>>
    /\ UNCHANGED <<args, prep, seed, final, nsamp, csteps, adjh,
                   obj, pool, best, outs, hist>>

\* One pass of the C-step loop (lines 169-185).
CStep ==
    /\ pc = "cstep"
    /\ tottimes' = tottimes + 1
    /\ LET c == cstep(Ints(Xvar), IntsOf(yvar), residu, adjh)
       IN  /\ z' = c.z
           /\ residu' = c.residu
           /\ obj' = c.obj
           /\ IF jj >= 1 /\ REq(c.obj, prevobj)
              THEN pc' = "keep" /\ UNCHANGED <<jj, prevobj>>
              ELSE /\ prevobj' = c.obj
                   /\ jj' = jj + 1
                   /\ pc' = IF jj + 1 < csteps.count THEN "cstep" ELSE "keep"
    /\ UNCHANGED <<args, err, prep, seed, final, nsamp, csteps, adjh, ii,
                   pool, best, outs, hist>>

\* After the C-steps of a coarse trial (lines 187-191).
Keep ==
    /\ pc = "keep"
    /\ final = 0
    /\ IF Improves(obj, bobj)
       THEN LET r == insertion(bcoeff, bobj, z, obj)
            IN  bcoeff' = r.bcoeff /\ bobj' = r.bobj
       ELSE UNCHANGED pool
    /\ ii' = ii + 1
    /\ pc' = "trial"
    /\ UNCHANGED <<args, err, prep, seed, tottimes, final, nsamp, csteps,
                   adjh, jj, iter, best, outs, hist>>

\* A test that takes every refined candidate, the last one winning.
TakesLatest(o, b) == TRUE

\* obj < bestobj (line 192).
Lowers(o, b) == RLess(o, b)

\* After the C-steps of a final trial (lines 192-194).
Accept ==
    /\ pc = "keep"
    /\ final = 1
    /\ IF Lowers(obj, bestobj)
       THEN bestobj' = obj /\ coeffs' = z
       ELSE UNCHANGED best
    /\ ii' = ii + 1
    /\ pc' = "trial"
    /\ UNCHANGED <<args, err, prep, seed, tottimes, final, nsamp, csteps,
                   adjh, jj, iter, pool, outs, hist>>

\* The for loop ends, by exhaustion or by the break on an unfilled pool
\* slot, and the while loop turns (lines 154-156, 196-199, 135-146).
LoopEnds ==
    IF ii > nsamp THEN TRUE ELSE final = 1 /\ ~IsFinite(bobj[ii])

EndPhase ==
    /\ pc = "trial"
    /\ LoopEnds
    /\ IF ii <= nsamp
       THEN tottimes' = tottimes + 1 /\ prevobj' = Zero
       ELSE UNCHANGED <<tottimes, prevobj>>
    /\ IF final = 0
       THEN /\ final' = 1
            /\ nsamp' = FinalNsamp(n)
            /\ adjh' = h
            /\ csteps' = FinalCsteps(n, p)
            /\ ii' = 1
            /\ pc' = "trial"
       ELSE /\ final' = 2
            /\ pc' = "post"
            /\ UNCHANGED <<nsamp, adjh, csteps, ii>>
    /\ UNCHANGED <<args, err, prep, seed, jj, z, residu, obj, pool, best,
                   outs, hist>>

----------------------------------------------------------------------------
(* Scale, weights and the result (lines 201-291).                          *)

\* The values rawcorfactorlts * rawconsfactorlts and rewcorfactorlts *
\* rewconsfactorlts may take: a positive number below 1 and one above
\* (functions of p, the intercept flag, n, alpha, h and the flagged count
\* that are not part of fast_lts_array.py).
RawFactors == {Q(1, 2), Rat(3)}
RewFactors == {Q(1, 2), Q(3, 2)}

\* Lines 201-229: coefficients back to the units of X and y, residuals of
\* the accepted candidate, raw scale (held as its square).
PostProcess ==
    /\ pc = "post"
    /\ LET c == PostCoeffs(coeffs)
           r == RResiduals(xint, yint, c)
       IN  /\ coeffs' = c
           /\ residuals' = r
           /\ \E f \in RawFactors :
                 /\ rawfac' = f
                 /\ s0sq' = RMul(RDiv(SumSmallest(SqSeq(r), h), Rat(h)), RSq(f))
    /\ pc' = "scale"
    /\ UNCHANGED <<args, err, prep, loop, iter, pool, bestobj, rewfac,
                   weights, nflag, Res, hist>>

\* np.abs(s0) < 1e-7.
IsExactFit(sq) == LessInvSquare(sq, TolRoot)

\* Weights that are all true.
AllOnes(res) == [j \in 1..Len(res) |-> 1]

\* (np.abs(residuals) < 1e-7) * 1.
NearZeroWeights(res) ==
    [j \in 1..Len(res) |-> IF LessInvSquare(RSq(res[j]), TolRoot) THEN 1 ELSE 0]

\* Lines 231-238: the exact-fit exit.
ExactFit ==
    /\ pc = "scale"
    /\ IsExactFit(s0sq)
    /\ weights' = NearZeroWeights(residuals)
    /\ Res' = [NoRes EXCEPT !.scaleSq = Zero, !.coefficients = coeffs,
                            !.fitted = Fitted(coeffs)]
    /\ pc' = "decode"
    /\ UNCHANGED <<args, err, prep, loop, iter, pool, best, rawfac, rewfac,
                   residuals, s0sq, nflag, hist>>

\* np.abs(res / scale) <= cut, from the squares.
WithinCut(res, scaleSq, cutSq) ==
    [j \in 1..Len(res) |-> RLeq(RDiv(RSq(res[j]), scaleSq), cutSq)]

\* The positions flagged TRUE, ascending.
Flagged(w) == SetToSeq({j \in 1..Len(w) : w[j]})

\* np.sum(weights2).
CountFlagged(w) == Cardinality({j \in 1..Len(w) : w[j]})

\* Lines 239-262: weights from the raw scale, least squares on the flagged
\* rows of the original data, scale of the refit, final weights.
Reweight ==
    /\ pc = "scale"
    /\ ~IsExactFit(s0sq)
    /\ LET w == WithinCut(residuals, s0sq, QuantileSq)
           rows == Flagged(w)
           zfinal == CoefRat(lstsq(Pick(xint, rows), Pick(yint, rows)))
           r == RResiduals(xint, yint, zfinal)
           ss == SumSeq(Pick(SqSeq(r), rows))
       IN  /\ nflag' = CountFlagged(w)
           /\ residuals' = r
           /\ \E f \in RewFactors :
                 /\ rewfac' = f
                 /\ LET sc == RMul(RDiv(ss, Rat(CountFlagged(w) - 1)), RSq(f))
                    IN  /\ Res' = [NoRes EXCEPT !.coefficients = zfinal,
                                               !.scaleSq = sc,
                                               !.fitted = Fitted(zfinal)]
                        /\ weights' = [j \in 1..n |->
                               IF WithinCut(r, sc, FinalCutSq)[j] THEN 1 ELSE 0]
    /\ pc' = "decode"
    /\ UNCHANGED <<args, err, prep, loop, iter, pool, best, rawfac, s0sq, hist>>

\* Lines 264-291: flags, rsquared, residuals, and velocity and back-azimuth
\* from coefficients[0] and coefficients[1] (not computed here; np.asscalar
\* is taken from a numpy that provides it).
Decode ==
    /\ pc = "decode"
    /\ IF p < 2
       THEN Raise("IndexError") /\ UNCHANGED Res
       ELSE /\ Res' = [Res EXCEPT !.flagged = weights,
                                  !.rsquared = RSquared(residuals, h),
                                  !.residuals = residuals]
            /\ pc' = "done"
            /\ UNCHANGED err
    /\ UNCHANGED <<args, prep, loop, iter, pool, best, rawfac, rewfac,
                   residuals, s0sq, weights, nflag, hist>>

----------------------------------------------------------------------------
(* The calls the model makes.                                              *)

MaxNoise == 1
MaxCalls == 2

\* Design matrices: two of full rank with no two rows parallel; one of full
\* rank with four of its five rows parallel; a repeated column; a zero
\* column; too few rows (n <= 2p).
Plane == << <<1, 0>>, <<0, 1>>, <<1, 1>>, <<1, 2>>, <<2, 1>> >>
Plane6 == << <<1, 0>>, <<0, 1>>, <<1, 1>>, <<1, 2>>, <<2, 1>>, <<1, -1>> >>
Collinear == << <<1, 1>>, <<1, 0>>, <<2, 2>>, <<3, 3>>, <<1, 1>> >>
Repeated == << <<1, 1>>, <<2, 2>>, <<1, 1>>, <<3, 3>>, <<2, 2>> >>
ZeroColumn == << <<1, 0>>, <<2, 0>>, <<1, 0>>, <<3, 0>>, <<2, 0>> >>
Short == << <<1, 0>>, <<0, 1>>, <<1, 1>>, <<1, 2>> >>

\* Ten sensor pairs on four baselines and travel-time differences that no
\* plane wave comes near: a search with many distinct candidates.
Scattered == << <<1, 0>>, <<0, 1>>, <<1, 1>>, <<1, -1>>, <<1, 0>>,
               <<0, 1>>, <<1, 1>>, <<1, -1>>, <<1, 0>>, <<0, 1>> >>
Rough == << <<1>>, <<2>>, <<4>>, <<-1>>, <<3>>, <<-2>>, <<-3>>, <<2>>, <<-1>>, <<0>> >>

\* Errors added to the responses: at most k observations corrupted.
Noise(rows, k) ==
    {e \in [1..rows -> 0..MaxNoise] :
        Cardinality({j \in 1..rows : e[j] # 0}) <= k}

\* The n x 1 response D s + e of the slowness vector s.
Response(D, s, e) ==
    [j \in 1..Len(D) |-> <<D[j][1] * s[1] + D[j][2] * s[2] + e[j]>>]

Call(D, c, a) == [X |-> D, y |-> c, alpha |-> a]

\* Calls that pass the shape checks.
Searches ==
    {Call(Plane, Response(Plane, <<1, 2>>, e), Q(1, 2)) : e \in Noise(5, 2)}
    \cup {Call(Plane, Response(Plane, <<0, 0>>, e), Q(1, 2)) : e \in Noise(5, 1)}
    \cup {Call(Repeated, Response(Repeated, <<1, 1>>, e), Q(1, 2)) : e \in Noise(5, 1)}
    \cup {Call(Plane6, Response(Plane6, <<1, 2>>, e), a) :
              e \in Noise(6, 1), a \in {Q(1, 2), Q(3, 4)}}
    \cup {Call(ZeroColumn, Response(ZeroColumn, <<1, 1>>, e), Q(1, 2)) : e \in Noise(5, 1)}
    \cup {Call(Collinear, Response(Collinear, <<1, 2>>, e), Q(1, 2)) :
              e \in Noise(5, 0)}
    \cup {Call(Scattered, Rough, Q(1, 2))}

\* The same data with alpha = 1, and two of the calls with alpha below and
\* above its range.
OtherAlphas ==
    {Call(c.X, c.y, One) : c \in Searches}
    \cup {Call(Plane, Response(Plane, <<1, 2>>, e), a) :
              e \in Noise(5, 0), a \in {Q(1, 4), Q(5, 4)}}

\* Calls the shape checks refuse: rows of X and y differ, y with two
\* columns, n <= 2p.
Misshapen ==
    {Call(Plane, Response(Short, <<1, 2>>, e), a) :
         e \in Noise(4, 0), a \in {Q(1, 2), One, Q(5, 4)}}
    \cup {Call(Plane, [j \in 1..5 |-> <<j, 0>>], a) : a \in {Q(1, 2), One, Q(5, 4)}}
    \cup {Call(Short, Response(Short, <<1, 2>>, e), a) :
              e \in Noise(4, 1), a \in {Q(1, 2), One, Q(5, 4)}}

Inputs == Searches \cup OtherAlphas \cup Misshapen

\* The calls of the repeated-call specification.
RepeatInputs ==
    { Call(Plane, Response(Plane, <<1, 2>>, [j \in 1..5 |-> 0]), Q(1, 2)),
      Call(Plane, Response(Plane, <<1, 2>>,
                           [j \in 1..5 |-> IF j \in {2, 5} THEN 1 ELSE 0]), Q(1, 2)) }

\* The frame of a new call: its arguments bound, seed = 0 (line 63), no
\* other local assigned yet.
Enter(in, prevseed) ==
    /\ X' = in.X /\ y' = in.y /\ alpha' = in.alpha
    /\ pc' = "validate" /\ err' = "none"
    /\ h' = 0 /\ singular' = FALSE
    /\ datamad' = <<>> /\ madzero' = FALSE /\ Xvar' = <<>> /\ yvar' = <<>>
    /\ seed' = InitialSeed(prevseed)
    /\ tottimes' = 0 /\ final' = 0 /\ nsamp' = 0 /\ csteps' = NoLimit
    /\ adjh' = 0 /\ ii' = 0 /\ jj' = 0
    /\ z' = <<>> /\ residu' = <<>> /\ obj' = NaN /\ prevobj' = NaN
    /\ bobj' = <<>> /\ bcoeff' = <<>>
    /\ bestobj' = NaN /\ coeffs' = <<>>
    /\ rawfac' = NaN /\ rewfac' = NaN
    /\ residuals' = <<>> /\ s0sq' = NaN /\ weights' = <<>> /\ nflag' = 0
    /\ Res' = NoRes

InitWith(S) ==
    /\ \E in \in S : X = in.X /\ y = in.y /\ alpha = in.alpha
    /\ pc = "validate" /\ err = "none"
    /\ h = 0 /\ singular = FALSE
    /\ datamad = <<>> /\ madzero = FALSE /\ Xvar = <<>> /\ yvar = <<>>
    /\ seed = InitialSeed(0)
    /\ tottimes = 0 /\ final = 0 /\ nsamp = 0 /\ csteps = NoLimit
    /\ adjh = 0 /\ ii = 0 /\ jj = 0
    /\ z = <<>> /\ residu = <<>> /\ obj = NaN /\ prevobj = NaN
    /\ bobj = <<>> /\ bcoeff = <<>>
    /\ bestobj = NaN /\ coeffs = <<>>
    /\ rawfac = NaN /\ rewfac = NaN
    /\ residuals = <<>> /\ s0sq = NaN /\ weights = <<>> /\ nflag = 0
    /\ Res = NoRes
    /\ calls = 1 /\ seen = {}

Init == InitWith(Inputs)
InitRepeat == InitWith(RepeatInputs)

Finished == pc \in {"done", "raised"}

\* The caller calls again once the call has returned or raised.
Recall ==
    /\ Finished
    /\ calls < MaxCalls
    /\ calls' = calls + 1
    /\ seen' = seen \cup {Outcome}
    /\ \E in \in RepeatInputs : Enter(in, seed)

Step ==
    \/ Validate \/ Standardize \/ InitSearch
    \/ Draw \/ Reseed \/ CStep \/ Keep \/ Accept \/ EndPhase
    \/ PostProcess \/ ExactFit \/ Reweight \/ Decode

Next == Step
NextRepeat == Step \/ Recall

Spec == Init /\ [][Next]_vars
SpecRepeat == InitRepeat /\ [][NextRepeat]_vars

----------------------------------------------------------------------------
(* The C-step loop.                                                        *)

\* C1: within one run of the C-step loop, the trimmed objective computed by
\* an iteration is never greater than the one computed by the iteration
\* before it, in the coarse and in the final phase.
C1_ObjectiveNonIncreasing ==
    [][(pc = "cstep" /\ jj >= 1) => RLeq(obj', obj)]_vars

\* A later iteration of the loop is about to lower the objective strictly.
C1_Witness ==
    /\ pc = "cstep"
    /\ jj >= 1
    /\ RLess(cstep(Ints(Xvar), IntsOf(yvar), residu, adjh).obj, obj)

----------------------------------------------------------------------------
(* The least-squares shortcut.                                             *)

\* X' r = 0: r is the residual vector of a least-squares fit over all rows.
NormalEquations(r) ==
    \A i \in 1..p :
        SumSeq([j \in 1..n |-> RMul(xorig[j][i], r[j])]) = Zero

\* C2: with alpha = 1 and inputs that pass validation the call never
\* enters the search: no subset is drawn (the seed stays 0), no C-step or
\* trial is counted, the pool keeps its initial inf objectives, and the
\* result returned is one least-squares fit over all n rows with every
\* weight true.
C2_OlsBypass ==
    (alpha = One /\ pc # "validate" /\ ShapeError(n, p, dimy1, dimy2) = "none") =>
        /\ pc \in {"standardize", "init", "done", "raised"}
        /\ seed = 0
        /\ tottimes = 0
        /\ \A x \in 1..Len(bobj) : bobj[x] = Inf
        /\ pc = "raised" => ~AllFinite(Xvar, yvar)
        /\ pc = "done" =>
              /\ Res.flagged = [j \in 1..n |-> 1]
              /\ Res.residuals = RResiduals(xint, yint, Res.coefficients)
              /\ NormalEquations(Res.residuals)

\* An alpha = 1 call has returned a fit that leaves nonzero residuals.
C2_Witness ==
    /\ alpha = One
    /\ pc = "done"
    /\ Len(bobj) = PoolSize
    /\ \E j \in 1..n : Res.residuals[j] # Zero
    /\ Res.flagged = [j \in 1..n |-> 1]

----------------------------------------------------------------------------
(* Repeated calls.                                                         *)

\* C3: every call starts with seed 0, an empty pool and best objective
\* inf whatever calls ran before it, and a call that ends with the same X,
\* y and alpha (and the same values of the correction-factor helpers) as
\* an earlier call ends as that call did: same exception or same result,
\* same final seed.
C3_SameInputsSameOutcome ==
    /\ pc = "validate" => seed = 0
    /\ (pc = "trial" /\ final = 0 /\ ii = 1) =>
           (bobj = EmptyObj /\ bcoeff = EmptyCoeff /\ bestobj = Inf)
    /\ Finished =>
           \A c \in seen :
               (c.X = X /\ c.y = y /\ c.alpha = alpha
                   /\ c.rawfac = rawfac /\ c.rewfac = rewfac) => c = Outcome

\* A second call has returned a reweighted result for the arguments of the
\* first call, which ran a search of its own and left its seed advanced.
C3_Witness ==
    /\ calls = 2
    /\ pc = "done"
    /\ nflag > 0
    /\ \E c \in seen : c.X = X /\ c.y = y /\ c.alpha = alpha /\ c.seed # 0
                         /\ c.rawfac = rawfac /\ c.rewfac = rewfac

----------------------------------------------------------------------------
(* Rank-deficient designs.                                                 *)

\* C4: for X of rank less than p and alpha < 1 the call ends in an error
\* and returns no result.
C4_SingularDesignRaises ==
    (singular /\ alpha # One /\ Finished) => pc = "raised"

----------------------------------------------------------------------------
(* The exact-fit exit.                                                     *)

\* y = X s for a slowness vector s of small integers.
ExactData ==
    \E a \in -3..3 : \E b \in -3..3 :
        \A j \in 1..n : y[j][1] = X[j][1] * a + X[j][2] * b

\* Every h rows of X have rank p = 2: among any h rows two are not
\* parallel.
EveryHRowsSpan ==
    \A S \in SUBSET (1..n) :
        Cardinality(S) = h =>
            \E j \in S : \E k \in S :
                X[j][1] * X[k][2] - X[j][2] * X[k][1] # 0

\* What the exact-fit exit returns: scale 0, the accepted coefficients, a
\* flag exactly on the observations whose absolute residual under them is
\* below 1e-7, and no reweighted refit.
ExactFitResult ==
    /\ Res.scaleSq = Zero
    /\ Res.coefficients = coeffs
    /\ residuals = RResiduals(xint, yint, coeffs)
    /\ \A j \in 1..n :
          Res.flagged[j] = 1 <=> LessInvSquare(RSq(residuals[j]), TolRoot)
    /\ IsNaN(rewfac) /\ nflag = 0

\* C5 (as the program has it): a returned search whose raw scale is below
\* 1e-7 has taken the exact-fit exit; a search on y = X s has a raw scale
\* below 1e-7, and every flag of its result is true when every h rows of X
\* have rank p.
C5_ExactFitPath ==
    /\ (pc = "done" /\ alpha # One /\ IsExactFit(s0sq)) => ExactFitResult
    /\ (pc = "done" /\ alpha # One /\ ExactData) =>
          /\ IsExactFit(s0sq)
          /\ EveryHRowsSpan => Res.flagged = [j \in 1..n |-> 1]

\* C5 (as stated): a returned search whose raw scale is below 1e-7 has
\* taken the exact-fit exit, and for y = X s the scale is 0 and every flag
\* is true.
C5_ExactDataAllFlagged ==
    /\ (pc = "done" /\ alpha # One /\ IsExactFit(s0sq)) => ExactFitResult
    /\ (pc = "done" /\ alpha # One /\ ExactData) =>
          /\ Res.scaleSq = Zero
          /\ Res.flagged = [j \in 1..n |-> 1]

\* An exact fit through h observations has been returned with the
\* remaining observation flagged false.
C5_Witness ==
    /\ pc = "done"
    /\ alpha # One
    /\ s0sq = Zero
    /\ Res.scaleSq = Zero
    /\ \E j \in 1..n : Res.flagged[j] = 0 /\ residuals[j] # Zero
    /\ Cardinality({j \in 1..n : Res.flagged[j] = 1}) >= h

----------------------------------------------------------------------------
(* Validation.                                                             *)

\* C6: when the rows of X and y differ, y has not exactly one column,
\* n <= 2p or alpha is outside [0.5, 1], the call raises before anything is
\* standardized or searched and returns no result.
C6_InvalidInputRaisesEarly ==
    (n # dimy1 \/ dimy2 # 1 \/ n <= 2 * p
         \/ RLess(alpha, Q(1, 2)) \/ RLess(One, alpha)) =>
        /\ pc \in {"validate", "raised"}
        /\ datamad = <<>> /\ Xvar = <<>> /\ yvar = <<>>
        /\ seed = 0 /\ tottimes = 0 /\ bobj = <<>>
        /\ Res = NoRes

----------------------------------------------------------------------------
(* rsquared.                                                               *)

\* C7: the rsquared of every result returned lies in [0, 1].
C7_RsquaredInUnitInterval ==
    pc = "done" => (RLeq(Zero, Res.rsquared) /\ RLeq(Res.rsquared, One))

----------------------------------------------------------------------------
(* Reweighting.                                                            *)

----------------------------------------------------------------------------
(* Degenerate columns.                                                     *)

\* C9: when the scale of a column is still at most eps after the fallback,
\* no column has been divided, no trial has been counted, no subset drawn
\* and no result returned.
C9_DegenerateColumnFailsFast ==
    madzero => (Xvar = <<>> /\ yvar = <<>> /\ tottimes = 0 /\ seed = 0
                   /\ pc # "done")

----------------------------------------------------------------------------
(* The candidate pool.                                                     *)

\* The filled slots of the pool.
Filled == {x \in 1..Len(bobj) : IsFinite(bobj[x])}

\* Ten slots, each a finite objective with finite coefficients or inf with
\* NaN; each objective at most the next, so the filled slots come first.
PoolShape(objs, coefs) ==
    /\ Len(objs) = PoolSize /\ Len(coefs) = PoolSize
    /\ \A x \in 1..PoolSize :
          \/ IsFinite(objs[x]) /\ CoefFinite(coefs[x])
          \/ objs[x] = Inf /\ coefs[x] = NaNCoef
    /\ \A x \in 1..(PoolSize - 1) : RLeq(objs[x], objs[x + 1])

\* The pool after (z, obj) went in at slot ins and the last slot went out.
Displaced(ins) ==
    /\ bobj' = [x \in 1..PoolSize |->
                  IF x < ins THEN bobj[x] ELSE IF x = ins THEN obj ELSE bobj[x - 1]]
    /\ bcoeff' = [x \in 1..PoolSize |->
                  IF x < ins THEN bcoeff[x] ELSE IF x = ins THEN z ELSE bcoeff[x - 1]]

\* C10: once allocated, the pool has 10 slots with the filled ones first
\* in ascending order of objective and no two filled slots holding the
\* same objective; a coarse trial changes the pool only when its objective
\* is strictly below the last (worst) slot, and then its result goes in
\* and the last slot goes out.
C10_PoolSortedAndDistinct ==
    [][ /\ Len(bobj') = PoolSize =>
              /\ PoolShape(bobj', bcoeff')
              /\ \A x \in 1..(PoolSize - 1) :
                    IsFinite(bobj'[x + 1]) => RLess(bobj'[x], bobj'[x + 1])
        /\ (pc = "keep" /\ pool' # pool) =>
              /\ final = 0
              /\ RLess(obj, bobj[PoolSize])
              /\ \E ins \in 1..PoolSize : Displaced(ins) ]_vars

\* A coarse trial is about to enter a full pool, pushing its worst entry
\* out.
C10_Witness ==
    /\ pc = "keep"
    /\ final = 0
    /\ Cardinality(Filled) = PoolSize
    /\ Improves(obj, bobj)
    /\ ~InPool(bobj, obj)

----------------------------------------------------------------------------
(* The accepted candidate.                                                 *)

\* The C-step loop of the final phase run from the residuals res: pass j
\* of at most limit, stopping once a pass after the first repeats the
\* objective prev.
RECURSIVE RefineFrom(_, _, _, _)
RefineFrom(res, prev, j, limit) ==
    LET c == cstep(Ints(Xvar), IntsOf(yvar), res, h)
    IN  IF j >= 1 /\ REq(c.obj, prev) THEN c
        ELSE IF j + 1 >= limit THEN c
        ELSE RefineFrom(c.residu, c.obj, j + 1, limit)

\* The final-phase refinement of the coefficient triple c.
Refined(c) ==
    RefineFrom(Residuals(Ints(Xvar), IntsOf(yvar), c), Zero, 0,
               FinalCsteps(n, p).count)

\* The search has ended with every filled pool slot restarted, and the
\* accepted pair is the refinement of a pool entry whose objective is the
\* least of the refined objectives, is the trimmed objective of the
\* accepted coefficients, and is at most every objective in the pool.
BestRefinedAccepted ==
    /\ Filled # {}
    /\ ii = Cardinality(Filled) + 1
    /\ \A x \in Filled : RLeq(bestobj, Refined(bcoeff[x]).obj)
    /\ \E x \in Filled :
          Refined(bcoeff[x]).obj = bestobj /\ Refined(bcoeff[x]).z = coeffs
    /\ TrimmedObjective(Residuals(Ints(Xvar), IntsOf(yvar), coeffs), coeffs[3], h)
           = bestobj
    /\ \A x \in Filled : RLeq(bestobj, bobj[x])

====
